---- MODULE Spec2Model ----
(***************************************************************************)
(* CA Guide: the quiz session state machine held by the App component      *)
(* (examState, config, mode), the question-generation requests in flight,  *)
(* the one-second timer effect, and the lesson state of ClassesScreen.     *)
(*                                                                         *)
(* JavaScript values that may be undefined/null are modelled as sets with  *)
(* at most one element: {} is undefined/null, {v} is the value v.  Indices *)
(* are zero-based as in the source; questions[i] of the source is          *)
(* questions[i + 1] of the TLA+ sequence.                                  *)
(***************************************************************************)
EXTENDS Integers, Sequences, FiniteSets, Bags, TLC

VARIABLES
    mode,          \* useState<AppMode>             part_000:25
    examState,     \* useState<ExamState>           part_000:27
    config,        \* useState<ExamConfig | null>   part_000:28
    pending,       \* bag of the configurations whose generateExamQuestions
                   \* promise is not yet settled                part_000:63
    lesson,        \* ClassesScreen useState<Lesson | null>   part_003:160
    isGenerating,  \* ClassesScreen useState<boolean>         part_003:159
    streamBuffer,  \* ClassesScreen streamBufferRef.current   part_003:172
    streamOpen,    \* the for-await loop of handleStartClass is running
    observed       \* history of the session, read by no action:
                   \*   duration: durationMinutes of the request that made the session active
                   \*   ticks:    interval callbacks delivered to the session so far
                   \*   resetBy:  the handler that last put initialState, until the next start
                   \*   received: the fragments the lesson stream of the mounted
                   \*             ClassesScreen has delivered, in arrival order

vars == <<mode, examState, config, pending, lesson, isGenerating, streamBuffer, streamOpen, observed>>

appVars == <<mode, examState, config, pending, observed>>

classVars == <<lesson, isGenerating, streamBuffer, streamOpen>>

----------------------------------------------------------------------------
(* Bounds of the model *)

\* largest questionCount of a configuration
MaxQuestions == 2

\* largest durationMinutes of a configuration
MaxMinutes == 1

\* most generation requests in flight at once
MaxPending == 2

\* longest lesson buffer
MaxBuffer == 4

\* longest lesson text of the lesson stream taken on its own
MaxText == 9

\* longest lesson text made of header markers, letters and newlines only
MaxOutline == 12

\* number of options of a generated question
NumOptions == 2

----------------------------------------------------------------------------
(* Program constants *)

\* newConfig.durationMinutes * 60
SecondsPerMinute == 60

Undefined == {}

Def(v) == {v}

ErrorMessage == "Failed to generate exam. Please try again."

\* Date.now(): the value is not read anywhere; one token stands for it
Clock == "now"

Modes == {"EXAM", "CLASSES", "PRACTICE"}

----------------------------------------------------------------------------
(* Bounded inputs *)

\* ExamConfig values handed to handleStartSimulator / handleStartPractice:
\* questionCount and durationMinutes are the fields the session reads.
\* Two are drawn: the largest question list with no time at all, and a single
\* question with the longest duration.
Configs ==
    {[questionCount |-> MaxQuestions, durationMinutes |-> 0],
     [questionCount |-> 1, durationMinutes |-> MaxMinutes]}

\* a Question: the session reads correctOptionIndex and options.length
Question(c) == [correctOptionIndex |-> Def(c), options |-> NumOptions]

\* the list of n questions whose k-th question (zero-based) has correct option k % NumOptions
QuestionList(n) == [k \in 1..n |-> Question((k - 1) % NumOptions)]

\* a parsed question object without the key correctOptionIndex
QuestionWithoutKey == [correctOptionIndex |-> Undefined, options |-> NumOptions]

\* what JSON.parse of the response may deliver for a request: the value is
\* cast to Question[] and returned as it is, so neither the length of the
\* list nor the keys of its objects are validated.  Drawn: every list of at
\* most the requested number of questions and, when more than one question
\* was requested, the list of one question that has no correctOptionIndex.
GeneratedLists(cfg) ==
    {QuestionList(n) : n \in 0..cfg.questionCount}
        \cup {<<QuestionWithoutKey>> : n \in 2..cfg.questionCount}

----------------------------------------------------------------------------
(* State *)

initialState ==
    [status |-> "idle",
     questions |-> <<>>,
     currentQuestionIndex |-> 0,
     answers |-> <<>>,
     flagged |-> <<>>,
     startTime |-> Undefined,
     timeRemaining |-> 0,
     score |-> 0,
     error |-> Undefined]

\* obj[key] of a Record<number, T>: undefined when the key is absent
Lookup(obj, key) == IF key \in DOMAIN obj THEN Def(obj[key]) ELSE Undefined

\* { ...obj, [key]: value }
Spread(obj, key, value) ==
    [k \in (DOMAIN obj) \cup {key} |-> IF k = key THEN value ELSE obj[k]]

\* state.questions.forEach((q, idx) => { if (state.answers[idx] === q.correctOptionIndex) score++ })
RECURSIVE ScoreUpTo(_, _)
ScoreUpTo(state, n) ==
    IF n = 0 THEN 0
    ELSE ScoreUpTo(state, n - 1)
         + (IF Lookup(state.answers, n - 1) = state.questions[n].correctOptionIndex
            THEN 1 ELSE 0)

\* a scoring that counts every answered question
calculateScoreAnswered(state) == Cardinality(DOMAIN state.answers)

calculateScore(state) == ScoreUpTo(state, Len(state.questions))

PendingCount == BagCardinality(pending)

----------------------------------------------------------------------------
(* State updaters of the App handlers (the functions given to setExamState) *)

\* a callback that finishes the session one tick late
tickUpdateLate(prev) ==
    IF prev.timeRemaining <= 0
    THEN [prev EXCEPT !.timeRemaining = 0, !.status = "finished", !.score = calculateScore(prev)]
    ELSE [prev EXCEPT !.timeRemaining = prev.timeRemaining - 1]

\* Timer Effect: the interval callback's updater
tickUpdate(prev) ==
    IF prev.timeRemaining <= 1
    THEN [prev EXCEPT !.timeRemaining = 0, !.status = "finished", !.score = calculateScore(prev)]
    ELSE [prev EXCEPT !.timeRemaining = prev.timeRemaining - 1]

\* startQuizGeneration, line 60
loadingUpdate(prev) == [prev EXCEPT !.status = "loading"]

\* a session seeded with the minutes taken as seconds
activeStateUnscaled(newConfig, questions) ==
    [initialState EXCEPT !.status = "active",
                         !.questions = questions,
                         !.timeRemaining = newConfig.durationMinutes,
                         !.startTime = Def(Clock)]

\* a session that starts with the answers and flags of the state before it
activeStateKeepsAnswers(newConfig, questions) ==
    [initialState EXCEPT !.status = "active",
                         !.questions = questions,
                         !.answers = examState.answers,
                         !.flagged = examState.flagged,
                         !.timeRemaining = newConfig.durationMinutes * SecondsPerMinute,
                         !.startTime = Def(Clock)]

\* a session that starts with the score of the state before it
activeStateKeepsScore(newConfig, questions) ==
    [initialState EXCEPT !.status = "active",
                         !.questions = questions,
                         !.score = examState.score,
                         !.timeRemaining = newConfig.durationMinutes * SecondsPerMinute,
                         !.startTime = Def(Clock)]

\* a session timed by the configuration held in config, not by the request's own
activeStateOfCurrentConfig(newConfig, questions) ==
    [initialState EXCEPT !.status = "active",
                         !.questions = questions,
                         !.timeRemaining =
                             IF config = Undefined THEN 0
                             ELSE (CHOOSE c \in config : TRUE).durationMinutes * SecondsPerMinute,
                         !.startTime = Def(Clock)]

\* startQuizGeneration, lines 71-77
activeState(newConfig, questions) ==
    [initialState EXCEPT !.status = "active",
                         !.questions = questions,
                         !.timeRemaining = newConfig.durationMinutes * SecondsPerMinute,
                         !.startTime = Def(Clock)]

\* startQuizGeneration, lines 80-84
\* a catch block that uses the status 'error' of the ExamState type
failureUpdateErrorStatus(prev) == [prev EXCEPT !.status = "error", !.error = Def(ErrorMessage)]

failureUpdate(prev) == [prev EXCEPT !.status = "idle", !.error = Def(ErrorMessage)]

\* a handler that forgets the answers given to the other questions
answerUpdateReplacing(prev, questionIndex, optionIndex) ==
    [prev EXCEPT !.answers = Spread(<<>>, questionIndex, optionIndex)]

answerUpdate(prev, questionIndex, optionIndex) ==
    [prev EXCEPT !.answers = Spread(prev.answers, questionIndex, optionIndex)]

\* a handler that sets the flag instead of flipping it
flagUpdateSet(prev, questionIndex) ==
    [prev EXCEPT !.flagged = Spread(prev.flagged, questionIndex, TRUE)]

\* !prev.flagged[questionIndex]: !undefined is true
flagUpdate(prev, questionIndex) ==
    [prev EXCEPT !.flagged =
        Spread(prev.flagged, questionIndex, Lookup(prev.flagged, questionIndex) # Def(TRUE))]

navigateUpdate(prev, questionIndex) ==
    [prev EXCEPT !.currentQuestionIndex = questionIndex]

submitUpdate(prev) ==
    [prev EXCEPT !.status = "finished", !.score = calculateScore(prev)]

----------------------------------------------------------------------------
(* What renderContent shows: the controls a user can reach *)

\* ExamScreen / PracticeQuizScreen read currentQuestion.text while rendering:
\* with questions[currentQuestionIndex] undefined the render throws and React
\* unmounts the application (no error boundary)
QuestionScreenMounted ==
    mode \in {"EXAM", "PRACTICE"} /\ examState.status = "active"

Crashed ==
    /\ QuestionScreenMounted
    /\ examState.currentQuestionIndex \notin 0..(Len(examState.questions) - 1)

NavShown == ~Crashed /\ mode # "PRACTICE"

SetupScreenShown ==
    ~Crashed /\ mode = "EXAM" /\ examState.status \in {"idle", "loading"}

ExamScreenShown == ~Crashed /\ mode = "EXAM" /\ examState.status = "active"

PracticeScreenShown == ~Crashed /\ mode = "PRACTICE" /\ examState.status = "active"

ResultsScreenShown ==
    /\ ~Crashed
    /\ config # Undefined
    /\ \/ mode = "PRACTICE" /\ examState.status = "finished"
       \/ mode = "EXAM" /\ examState.status \notin {"idle", "loading", "active"}

ClassesScreenShown == ~Crashed /\ mode = "CLASSES"

\* the history of the lesson stream ends when ClassesScreen is unmounted
HistoryAfter(newMode) ==
    IF newMode = "CLASSES" /\ mode = "CLASSES"
    THEN observed
    ELSE [observed EXCEPT !.received = <<>>]

\* the "Take Practice Quiz" button of ClassesScreen
TakeQuizShown ==
    /\ ClassesScreenShown
    /\ lesson # Undefined
    /\ ~isGenerating
    /\ \E l \in lesson : Len(l.sections) > 0

\* a screen that takes no question for the last one
isLastQuestionNever == FALSE

\* const isLastQuestion = state.currentQuestionIndex === state.questions.length - 1
isLastQuestion ==
    examState.currentQuestionIndex = Len(examState.questions) - 1

\* Object.keys(state.answers).length
answeredCount == Cardinality(DOMAIN examState.answers)

\* a JavaScript number: a finite value, NaN or Infinity
Number(n) == [kind |-> "number", value |-> n]

NaN == [kind |-> "NaN", value |-> 0]

Infinity == [kind |-> "Infinity", value |-> 0]

\* ResultsScreen: Math.round((correctCount / totalQuestions) * 100), with
\* 0 / 0 = NaN, n / 0 = Infinity for n > 0, and Math.round rounding halves up
percentage(state) ==
    LET totalQuestions == Len(state.questions)
        correctCount == state.score
    IN  IF totalQuestions = 0
        THEN IF correctCount = 0 THEN NaN ELSE Infinity
        ELSE Number((200 * correctCount + totalQuestions) \div (2 * totalQuestions))

\* ClassesScreen is rendered in mode CLASSES only: leaving the mode unmounts it
\* and its state is created anew on the next mount
ClassesStateAfter(newMode) ==
    IF newMode = "CLASSES" /\ mode = "CLASSES"
    THEN UNCHANGED classVars
    ELSE /\ lesson' = Undefined
         /\ isGenerating' = FALSE
         /\ streamBuffer' = <<>>
         /\ streamOpen' = FALSE

----------------------------------------------------------------------------
(* ClassesScreen: the lesson text and its sections.  Text is a sequence of  *)
(* one-character strings.                                                   *)

NL == "\n"

\* the fragments a lesson stream delivers
Fragments == {<<"#", "#", " ", "a">>}

\* the pieces of text that the fragments of a lesson are made of: the header
\* marker with its space, a letter, a space, a newline
Chunks == {<<"#", "#", " ">>, <<"a">>, <<" ">>, <<NL>>, <<"a", NL>>}

\* the topic typed into the form of ClassesScreen
FormTopic == "typed"

\* the subject and the level chosen in the form of ClassesScreen
FormSubject == "chosen subject"

FormLevel == "chosen level"

\* savedLessons as read from localStorage when ClassesScreen mounts: the
\* library holds one lesson, saved earlier
SavedLessons ==
    {[topic |-> "saved", subject |-> "saved subject", level |-> "saved level",
      sections |-> <<[title |-> <<"s">>, content |-> <<"s">>]>>]}

IsSpace(c) == c \in {" ", NL}

RECURSIVE TrimStart(_)
TrimStart(s) ==
    IF s # <<>> /\ IsSpace(Head(s)) THEN TrimStart(Tail(s)) ELSE s

RECURSIVE TrimEnd(_)
TrimEnd(s) ==
    IF s # <<>> /\ IsSpace(s[Len(s)]) THEN TrimEnd(SubSeq(s, 1, Len(s) - 1)) ELSE s

\* String.prototype.trim
Trim(s) == TrimEnd(TrimStart(s))

\* markdown.split('\n'): the text up to each newline, and the rest
RECURSIVE SplitFrom(_, _, _)
SplitFrom(s, i, line) ==
    IF i > Len(s) THEN <<line>>
    ELSE IF s[i] = NL THEN <<line>> \o SplitFrom(s, i + 1, <<>>)
    ELSE SplitFrom(s, i + 1, Append(line, s[i]))

SplitLines(s) == SplitFrom(s, 1, <<>>)

\* lines.join('\n')
RECURSIVE JoinLines(_)
JoinLines(lines) ==
    IF lines = <<>> THEN <<>>
    ELSE IF Len(lines) = 1 THEN lines[1]
    ELSE lines[1] \o <<NL>> \o JoinLines(Tail(lines))

\* a header test applied to the line as it is
IsHeaderLineUntrimmed(line) ==
    Len(line) >= 3 /\ SubSeq(line, 1, 3) = <<"#", "#", " ">>

\* line.trim().startsWith('## ')
IsHeaderLine(line) ==
    Len(Trim(line)) >= 3 /\ SubSeq(Trim(line), 1, 3) = <<"#", "#", " ">>

\* line.trim().substring(3).trim()
HeaderTitle(line) == Trim(SubSeq(Trim(line), 4, Len(Trim(line))))

\* a pushSection that emits a section whether or not a header opened it
pushSectionUntitled(sections, currentTitle, currentContent) ==
    Append(sections, [title |-> currentTitle, content |-> Trim(JoinLines(currentContent))])

\* a pushSection that puts the newest section first
pushSectionFirst(sections, currentTitle, currentContent) ==
    IF currentTitle # <<>>
    THEN <<[title |-> currentTitle, content |-> Trim(JoinLines(currentContent))]>> \o sections
    ELSE sections

\* pushSection: an untitled section is not emitted
pushSection(sections, currentTitle, currentContent) ==
    IF currentTitle # <<>>
    THEN Append(sections, [title |-> currentTitle, content |-> Trim(JoinLines(currentContent))])
    ELSE sections

\* the for loop of parseMarkdownToSections and the closing pushSection
RECURSIVE ParseLines(_, _, _, _)
ParseLines(lines, sections, currentTitle, currentContent) ==
    IF lines = <<>> THEN pushSection(sections, currentTitle, currentContent)
    ELSE IF IsHeaderLine(Head(lines))
    THEN ParseLines(Tail(lines), pushSection(sections, currentTitle, currentContent),
                    HeaderTitle(Head(lines)), <<>>)
    ELSE ParseLines(Tail(lines), sections, currentTitle,
                    IF currentTitle # <<>> THEN Append(currentContent, Head(lines))
                    ELSE currentContent)

parseMarkdownToSections(markdown) == ParseLines(SplitLines(markdown), <<>>, <<>>, <<>>)

\* handleStartClass up to the first await: the form's button is disabled while generating
StartClass ==
    /\ ClassesScreenShown
    /\ ~isGenerating
    /\ isGenerating' = TRUE
    /\ lesson' = Def([topic |-> FormTopic, subject |-> FormSubject, level |-> FormLevel,
                      sections |-> <<>>])
    /\ streamBuffer' = <<>>
    /\ streamOpen' = TRUE
    /\ observed' = [observed EXCEPT !.received = <<>>]
    /\ UNCHANGED <<mode, examState, config, pending>>

\* a loop that puts each chunk in front of the buffer
streamFragmentPrepended(chunk) ==
    /\ streamOpen
    /\ streamBuffer' = chunk \o streamBuffer
    /\ lesson' = {[l EXCEPT !.sections = parseMarkdownToSections(streamBuffer')] : l \in lesson}
    /\ observed' = [observed EXCEPT !.received = Append(observed.received, chunk)]
    /\ UNCHANGED <<isGenerating, streamOpen, mode, examState, config, pending>>

\* one iteration of the for-await loop with a non-empty chunk
streamFragment(chunk) ==
    /\ streamOpen
    /\ streamBuffer' = streamBuffer \o chunk
    /\ lesson' = {[l EXCEPT !.sections = parseMarkdownToSections(streamBuffer')] : l \in lesson}
    /\ observed' = [observed EXCEPT !.received = Append(observed.received, chunk)]
    /\ UNCHANGED <<isGenerating, streamOpen, mode, examState, config, pending>>

StreamFragment(chunk) ==
    /\ ~Crashed
    /\ Len(streamBuffer) + Len(chunk) <= MaxBuffer
    /\ streamFragment(chunk)

\* the stream ends: finally { setIsGenerating(false) }
StreamEnd ==
    /\ ~Crashed
    /\ streamOpen
    /\ streamOpen' = FALSE
    /\ isGenerating' = FALSE
    /\ UNCHANGED <<lesson, streamBuffer, appVars>>

\* a catch block that throws the lesson away
StreamFailDiscards ==
    /\ ~Crashed
    /\ streamOpen
    /\ streamOpen' = FALSE
    /\ isGenerating' = FALSE
    /\ lesson' = Undefined
    /\ UNCHANGED <<streamBuffer, appVars>>

\* the stream throws: catch { alert(...) } finally { setIsGenerating(false) }
StreamFail ==
    /\ ~Crashed
    /\ streamOpen
    /\ streamOpen' = FALSE
    /\ isGenerating' = FALSE
    /\ UNCHANGED <<lesson, streamBuffer, appVars>>

\* loadBookmark: a lesson of the library is shown; the "saved" tab is offered
\* whatever the stream does
LoadBookmark(savedLesson) ==
    /\ ClassesScreenShown
    /\ lesson' = Def(savedLesson)
    /\ UNCHANGED <<isGenerating, streamBuffer, streamOpen, appVars>>

----------------------------------------------------------------------------
(* App: handlers and effects, as the code runs them once invoked *)

noHistory == [duration |-> Undefined, ticks |-> 0, resetBy |-> "init", received |-> <<>>]

\* startQuizGeneration up to the await
startQuizGeneration(newConfig, targetMode) ==
    /\ PendingCount < MaxPending
    /\ mode' = targetMode
    /\ config' = Def(newConfig)
    /\ examState' = loadingUpdate(examState)
    /\ pending' = pending (+) SetToBag({newConfig})
    /\ ClassesStateAfter(targetMode)
    /\ observed' = [HistoryAfter(targetMode) EXCEPT !.resetBy = "none"]

\* the promise of a request resolves: startQuizGeneration, lines 71-77
generationSucceeds(newConfig, questions) ==
    /\ BagIn(newConfig, pending)
    /\ questions \in GeneratedLists(newConfig)
    /\ pending' = pending (-) SetToBag({newConfig})
    /\ examState' = activeState(newConfig, questions)
    /\ observed' = [observed EXCEPT !.duration = Def(newConfig.durationMinutes), !.ticks = 0]
    /\ UNCHANGED <<mode, config, classVars>>

\* the promise of a request rejects: startQuizGeneration, lines 78-86
generationFails(newConfig) ==
    /\ BagIn(newConfig, pending)
    /\ pending' = pending (-) SetToBag({newConfig})
    /\ examState' = failureUpdate(examState)
    /\ UNCHANGED <<mode, config, classVars, observed>>

\* an effect that keeps the interval whatever the status
timerArmedAnyStatus == examState.timeRemaining > 0

\* Timer Effect: an interval exists while status is active and timeRemaining > 0
timerArmed == examState.status = "active" /\ examState.timeRemaining > 0

tick ==
    /\ timerArmed
    /\ examState' = tickUpdate(examState)
    /\ observed' = [observed EXCEPT !.ticks = observed.ticks + 1]
    /\ UNCHANGED <<mode, config, pending, classVars>>

handleAnswer(questionIndex, optionIndex) ==
    /\ examState' = answerUpdate(examState, questionIndex, optionIndex)
    /\ UNCHANGED <<mode, config, pending, classVars, observed>>

handleFlag(questionIndex) ==
    /\ examState' = flagUpdate(examState, questionIndex)
    /\ UNCHANGED <<mode, config, pending, classVars, observed>>

handleNavigate(questionIndex) ==
    /\ examState' = navigateUpdate(examState, questionIndex)
    /\ UNCHANGED <<mode, config, pending, classVars, observed>>

handleSubmit ==
    /\ examState' = submitUpdate(examState)
    /\ UNCHANGED <<mode, config, pending, classVars, observed>>

\* a restart that keeps the score of the session it ends
restartOutcomeKeepsScore(prevMode) ==
    [examState |-> [initialState EXCEPT !.score = examState.score],
     config |-> Undefined,
     mode |-> IF prevMode = "PRACTICE" THEN "CLASSES" ELSE prevMode]

\* what handleRestart leaves in examState, config and mode
restartOutcome(prevMode) ==
    [examState |-> initialState,
     config |-> Undefined,
     mode |-> IF prevMode = "PRACTICE" THEN "CLASSES" ELSE prevMode]

handleRestart ==
    /\ examState' = restartOutcome(mode).examState
    /\ config' = restartOutcome(mode).config
    /\ mode' = restartOutcome(mode).mode
    /\ ClassesStateAfter(mode')
    /\ observed' = [noHistory EXCEPT !.resetBy = "restart"]
    /\ UNCHANGED pending

\* an exit that does not wait for the answer of the dialog
handleExitPracticeUnasked(confirmed) ==
    /\ mode' = "CLASSES"
    /\ examState' = initialState
    /\ config' = Undefined
    /\ ClassesStateAfter("CLASSES")
    /\ observed' = [noHistory EXCEPT !.resetBy = "exit"]
    /\ UNCHANGED pending

handleExitPractice(confirmed) ==
    IF confirmed
    THEN /\ mode' = "CLASSES"
         /\ examState' = initialState
         /\ config' = Undefined
         /\ ClassesStateAfter("CLASSES")
         /\ observed' = [noHistory EXCEPT !.resetBy = "exit"]
         /\ UNCHANGED pending
    ELSE UNCHANGED vars

----------------------------------------------------------------------------
(* The application as rendered: each control exists while its screen is shown *)

GenerationSucceeds(newConfig, questions) ==
    ~Crashed /\ generationSucceeds(newConfig, questions)

GenerationFails(newConfig) ==
    ~Crashed /\ generationFails(newConfig)

Tick == ~Crashed /\ tick

\* the nav buttons: onClick={() => setMode(...)}
SetMode(newMode) ==
    /\ NavShown
    /\ newMode \in {"EXAM", "CLASSES"}
    /\ newMode # mode
    /\ mode' = newMode
    /\ ClassesStateAfter(newMode)
    /\ observed' = HistoryAfter(newMode)
    /\ UNCHANGED <<examState, config, pending>>

\* SetupScreen: the start button is disabled while isLoading
StartSimulator(newConfig) ==
    /\ SetupScreenShown
    /\ examState.status # "loading"
    /\ startQuizGeneration(newConfig, "EXAM")

\* questionCount and durationMinutes of the quiz of a lesson
QuizQuestionCount == 5

QuizDurationMinutes == 5

\* a quiz configured from what the form holds
quizConfigOfForm(l) ==
    [subject |-> FormSubject,
     level |-> FormLevel,
     questionCount |-> QuizQuestionCount,
     durationMinutes |-> QuizDurationMinutes,
     topic |-> FormTopic]

\* the ExamConfig that handleTakeQuiz builds from the lesson shown (language,
\* a prop that no handler reads, is left out)
quizConfig(l) ==
    [subject |-> l.subject,
     level |-> l.level,
     questionCount |-> QuizQuestionCount,
     durationMinutes |-> QuizDurationMinutes,
     topic |-> l.topic]

\* ClassesScreen.handleTakeQuiz -> onStartQuiz = handleStartPractice
TakeQuiz ==
    /\ TakeQuizShown
    /\ \E l \in lesson : startQuizGeneration(quizConfig(l), "PRACTICE")

\* handleStartPractice with a configuration of Configs: the sessions of Spec
\* are kept short, the quiz as handleTakeQuiz configures it is TakeQuiz
StartPractice(newConfig) ==
    /\ TakeQuizShown
    /\ startQuizGeneration(newConfig, "PRACTICE")

\* an option button of the current question
ChooseOption(optionIndex) ==
    /\ ExamScreenShown \/ PracticeScreenShown
    /\ optionIndex \in 0..(examState.questions[examState.currentQuestionIndex + 1].options - 1)
    /\ handleAnswer(examState.currentQuestionIndex, optionIndex)

\* ExamScreen: "Flag for Review"
ToggleFlag ==
    /\ ExamScreenShown
    /\ handleFlag(examState.currentQuestionIndex)

\* "Previous" is disabled on the first question
Previous ==
    /\ ExamScreenShown \/ PracticeScreenShown
    /\ examState.currentQuestionIndex # 0
    /\ handleNavigate(examState.currentQuestionIndex - 1)

\* "Next" is rendered unless isLastQuestion
NextQuestion ==
    /\ ExamScreenShown \/ PracticeScreenShown
    /\ ~isLastQuestion
    /\ handleNavigate(examState.currentQuestionIndex + 1)

\* ExamScreen: the question palette offers every index of questions
Palette(idx) ==
    /\ ExamScreenShown
    /\ idx \in 0..(Len(examState.questions) - 1)
    /\ handleNavigate(idx)

\* a screen handler that submits whatever the dialog returns
ScreenSubmitUnasked(confirmed) ==
    /\ \/ ExamScreenShown
       \/ PracticeScreenShown /\ isLastQuestion
    /\ handleSubmit

\* the screens' handleSubmit: submit at once when nothing is unanswered,
\* otherwise only when window.confirm returns true
ScreenSubmit(confirmed) ==
    /\ \/ ExamScreenShown
       \/ PracticeScreenShown /\ isLastQuestion
    /\ IF Len(examState.questions) - answeredCount = 0 \/ confirmed
       THEN handleSubmit
       ELSE UNCHANGED vars

\* ResultsScreen: "Take New Exam"
Restart ==
    /\ ResultsScreenShown
    /\ handleRestart

\* PracticeQuizScreen: the exit button
ExitPractice(confirmed) ==
    /\ PracticeScreenShown
    /\ handleExitPractice(confirmed)

Init ==
    /\ mode = "EXAM"
    /\ examState = initialState
    /\ config = Undefined
    /\ pending = EmptyBag
    /\ lesson = Undefined
    /\ isGenerating = FALSE
    /\ streamBuffer = <<>>
    /\ streamOpen = FALSE
    /\ observed = noHistory

\* what the user can do
UserNext ==
    \/ \E m \in Modes : SetMode(m)
    \/ \E c \in Configs : StartSimulator(c)
    \/ \E c \in Configs : StartPractice(c)
    \/ \E o \in 0..(NumOptions - 1) : ChooseOption(o)
    \/ ToggleFlag
    \/ Previous
    \/ NextQuestion
    \/ \E i \in 0..(MaxQuestions - 1) : Palette(i)
    \/ \E b \in BOOLEAN : ScreenSubmit(b)
    \/ Restart
    \/ \E b \in BOOLEAN : ExitPractice(b)
    \/ StartClass

\* what the collaborators and the timer do
SystemNext ==
    \/ \E c \in Configs : \E qs \in GeneratedLists(c) : GenerationSucceeds(c, qs)
    \/ \E c \in Configs : GenerationFails(c)
    \/ Tick
    \/ \E f \in Fragments : StreamFragment(f)
    \/ StreamEnd
    \/ StreamFail

Next == UserNext \/ SystemNext

Spec == Init /\ [][Next]_vars

----------------------------------------------------------------------------
(* Properties of the session *)

\* the number of indices i in [0, len(questions)) with answers[i] = questions[i].correctOptionIndex
CorrectCount(state) ==
    Cardinality({i \in 0..(Len(state.questions) - 1) :
                    Lookup(state.answers, i) = state.questions[i + 1].correctOptionIndex})

\* the number of answered indices whose answer is the question's correct option
AnsweredCorrectCount(state) ==
    Cardinality({i \in 0..(Len(state.questions) - 1) :
                    /\ i \in DOMAIN state.answers
                    /\ Def(state.answers[i]) = state.questions[i + 1].correctOptionIndex})

\* a step in which the promise of a generation request settles
ResolveStep == BagCardinality(pending') < BagCardinality(pending)

\* a step in which the interval callback runs
TickStep == observed'.ticks = observed.ticks + 1

C2_FrozenUntilRestart ==
    [][(examState.status = "finished" /\ examState' # initialState)
          => /\ examState'.questions = examState.questions
             /\ examState'.answers = examState.answers
             /\ examState'.flagged = examState.flagged
             /\ examState'.score = examState.score]_vars

\* C3: a generation result that arrives when the status is no longer loading
\* is discarded: the session state is unchanged.
C3_LateResultDiscarded ==
    [][(ResolveStep /\ examState.status # "loading") => examState' = examState]_vars

\* C4: at most one generation request is outstanding at any time.
C4_SingleOutstanding == PendingCount <= 1

\* C5: in every state reached after a generation failure some user action is enabled.
C5_FailureRecoverable == (examState.error # Undefined) => ENABLED UserNext

\* C6: a failed generation leaves the initial state with the error attached.
C6_FailureResetsState ==
    [][(ResolveStep /\ examState'.status = "idle")
          => examState' = [initialState EXCEPT !.error = Def(ErrorMessage)]]_vars

\* C7: timeRemaining is never negative; the tick that brings it to zero makes
\* the session finished with the score a submit would compute; and no tick
\* acts on a finished session, so that transition happens once.
C7_TimerReachesZeroOnce ==
    /\ [](examState.timeRemaining >= 0)
    /\ [][(TickStep /\ examState'.timeRemaining = 0)
             => /\ examState'.status = "finished"
                /\ examState'.score = CorrectCount(examState)
                /\ examState' = [submitUpdate(examState) EXCEPT !.timeRemaining = 0]]_vars
    /\ [][examState.status = "finished" => ~TickStep]_vars

\* the timer ran out on a session whose one question was answered correctly
C7_Witness ==
    /\ examState.status = "finished"
    /\ examState.timeRemaining = 0
    /\ observed.ticks >= 1
    /\ examState.score = 1

\* C8: a session started with durationMinutes d >= 1 is active with
\* timeRemaining = d*60 - k after tick number k < d*60, and finished with
\* timeRemaining = 0 after tick number d*60.
C8_FinishedOnLastTick ==
    [][\A d \in observed'.duration :
         (TickStep /\ d >= 1)
            => /\ observed'.ticks <= d * 60
               /\ observed'.ticks < d * 60
                     => /\ examState'.status = "active"
                        /\ examState'.timeRemaining = d * 60 - observed'.ticks
               /\ observed'.ticks = d * 60
                     => /\ examState'.status = "finished"
                        /\ examState'.timeRemaining = 0]_vars

\* the last tick of a timed session has been delivered
C8_Witness ==
    /\ examState.status = "finished"
    /\ examState.timeRemaining = 0
    /\ \E d \in observed.duration : d >= 1 /\ observed.ticks = d * 60

\* C9: restart leaves exactly the initial state, and a second restart would
\* change nothing.
C9_RestartYieldsInitial ==
    [][Restart
          => /\ examState' = [status |-> "idle", questions |-> <<>>,
                              currentQuestionIndex |-> 0, answers |-> <<>>,
                              flagged |-> <<>>, startTime |-> Undefined,
                              timeRemaining |-> 0, score |-> 0, error |-> Undefined]
             /\ config' = Undefined
             /\ restartOutcome(mode') =
                  [examState |-> examState', config |-> config', mode |-> mode']]_vars

\* a practice session was restarted from its results
C9_Witness ==
    /\ observed.resetBy = "restart"
    /\ examState = initialState
    /\ mode = "CLASSES"

\* C11: while the timer of an active session is running, a step to another
\* active state never increases timeRemaining; and a tick in a state that is
\* not active leaves timeRemaining unchanged.
C11_TimeNeverIncreases ==
    [][/\ (/\ examState.status = "active"
            /\ examState.timeRemaining > 0
            /\ examState'.status = "active")
             => examState'.timeRemaining <= examState.timeRemaining
       /\ (examState.status # "active" /\ TickStep)
             => examState'.timeRemaining = examState.timeRemaining]_vars

\* C12: every key of answers and every key of flagged is an index of questions.
C12_KeysAreIndices ==
    (DOMAIN examState.answers) \cup (DOMAIN examState.flagged)
        \subseteq 0..(Len(examState.questions) - 1)

\* a new request is loading on top of a session that has answers and flags
C12_Witness ==
    /\ examState.status = "loading"
    /\ DOMAIN examState.answers # {}
    /\ DOMAIN examState.flagged # {}

\* C13: an active session has at least one question.
C13_ActiveHasQuestions ==
    examState.status = "active" => Len(examState.questions) >= 1

\* C14: an active session has exactly the configured number of questions.
C14_ActiveHasRequestedCount ==
    examState.status = "active"
        => \A c \in config : Len(examState.questions) = c.questionCount

\* C15: when a session becomes finished, its score is the number of answered
\* questions whose answer is the correct option: a question without an entry
\* in answers contributes nothing.
C15_UnansweredScoresNothing ==
    [][(examState.status # "finished" /\ examState'.status = "finished")
          => examState'.score = AnsweredCorrectCount(examState')]_vars

\* C16: the score is between 0 and the number of questions.
C16_ScoreWithinBounds ==
    /\ 0 <= examState.score
    /\ examState.score <= Len(examState.questions)

\* a new request is loading on top of a session finished with every answer correct
C16_Witness ==
    /\ examState.status = "loading"
    /\ examState.score >= 1
    /\ examState.score = Len(examState.questions)

\* flagged[i] as a boolean: an absent entry counts as false
FlagValue(state, i) == Lookup(state.flagged, i) = Def(TRUE)

\* C18: for every question index i, one toggle inverts the flag of i, and a
\* second toggle gives back the flag values of the state before the first,
\* for i and for every other index, with the rest of the state as it was.
C18_DoubleToggleRestores ==
    \A i \in 0..(Len(examState.questions) - 1) :
        LET once == flagUpdate(examState, i)
            twice == flagUpdate(once, i)
        IN  /\ FlagValue(once, i) = ~FlagValue(examState, i)
            /\ \A j \in 0..(Len(examState.questions) - 1) :
                   FlagValue(twice, j) = FlagValue(examState, j)
            /\ [twice EXCEPT !.flagged = examState.flagged] = examState

\* a question was flagged and then unflagged
C18_Witness ==
    /\ examState.status = "active"
    /\ \E i \in DOMAIN examState.flagged : examState.flagged[i] = FALSE

\* C19: the results of a finished session with no questions show 0 percent.
C19_ZeroQuestionsShowZero ==
    (ResultsScreenShown /\ Len(examState.questions) = 0)
        => percentage(examState) = Number(0)

\* C28: when the request of a configuration resolves and the session becomes
\* active, timeRemaining is that configuration's durationMinutes * 60, the
\* current index is 0, answers and flagged are empty, the score is 0 and
\* there is no error, whatever the state was before.
C28_ActivationValues ==
    [][\A c \in Configs :
          (/\ CopiesIn(c, pending') < CopiesIn(c, pending)
           /\ examState'.status = "active")
             => /\ examState'.timeRemaining = c.durationMinutes * 60
                /\ examState'.currentQuestionIndex = 0
                /\ DOMAIN examState'.answers = {}
                /\ DOMAIN examState'.flagged = {}
                /\ examState'.score = 0
                /\ examState'.error = Undefined]_vars

\* a timed request has just resolved while config holds another configuration
C28_Witness ==
    /\ examState.status = "active"
    /\ observed.ticks = 0
    /\ observed.duration = Def(MaxMinutes)
    /\ examState.timeRemaining = MaxMinutes * 60
    /\ config # Undefined
    /\ \A c \in config : c.durationMinutes # MaxMinutes

\* C29: while the status is loading, questions, answers and flagged are empty.
C29_LoadingHasNoData ==
    examState.status = "loading"
        => /\ examState.questions = <<>>
           /\ DOMAIN examState.answers = {}
           /\ DOMAIN examState.flagged = {}

C31_AnswerFrame ==
    [][\A i \in 0..(MaxQuestions - 1) : \A o \in 0..(NumOptions - 1) :
          (examState.status = "active" /\ handleAnswer(i, o))
             => /\ Lookup(examState'.answers, i) = Def(o)
                /\ \A j \in (DOMAIN examState.answers \cup DOMAIN examState'.answers) \ {i} :
                      Lookup(examState'.answers, j) = Lookup(examState.answers, j)
                /\ examState'.flagged = examState.flagged
                /\ examState'.currentQuestionIndex = examState.currentQuestionIndex
                /\ examState'.timeRemaining = examState.timeRemaining
                /\ examState'.status = examState.status
                /\ examState'.score = examState.score
                /\ answerUpdate(examState', i, o) = examState']_vars

\* both questions of a session answered, the first one flagged
C31_Witness ==
    /\ examState.status = "active"
    /\ DOMAIN examState.answers = {0, 1}
    /\ Lookup(examState.flagged, 0) = Def(TRUE)
    /\ examState.currentQuestionIndex = 1

\* C32: in an active session with questions the current index is an index
\* of questions, whatever Previous, Next and the palette were used for.
C32_IndexInRange ==
    (examState.status = "active" /\ examState.questions # <<>>)
        => /\ 0 <= examState.currentQuestionIndex
           /\ examState.currentQuestionIndex <= Len(examState.questions) - 1

\* the last question of the longest list is shown, with nothing answered
C32_Witness ==
    /\ examState.status = "active"
    /\ Len(examState.questions) = MaxQuestions
    /\ examState.currentQuestionIndex = MaxQuestions - 1
    /\ DOMAIN examState.answers = {}

\* C33: the screens' submit handler submits at once exactly when every
\* question is answered; otherwise it submits when the user confirms and
\* changes nothing when the user declines; and the submit it invokes ends
\* the session however many questions are unanswered.
C33_SubmitAsksWhenUnanswered ==
    [][\A confirmed \in BOOLEAN :
          ScreenSubmit(confirmed)
             => IF answeredCount = Len(examState.questions) \/ confirmed
                THEN /\ examState'.status = "finished"
                     /\ examState'.answers = examState.answers
                     /\ examState'.questions = examState.questions
                ELSE UNCHANGED <<examState, config, mode>>]_vars

\* an untimed session that was submitted with a question unanswered
C33_Witness ==
    /\ examState.status = "finished"
    /\ observed.duration = Def(0)
    /\ answeredCount < Len(examState.questions)

\* C36: whenever the status is active or finished, config is not null.
C36_ConfigWhileInSession ==
    examState.status \in {"active", "finished"} => config # Undefined

\* C37: the exit of a practice session puts the initial state, clears config
\* and switches to CLASSES when the user confirms; when the user declines,
\* session state, config and mode stay and the timer stays as it was.
C37_ExitOnlyWhenConfirmed ==
    [][\A confirmed \in BOOLEAN :
          ExitPractice(confirmed)
             => IF confirmed
                THEN /\ examState' = initialState
                     /\ config' = Undefined
                     /\ mode' = "CLASSES"
                ELSE /\ UNCHANGED <<examState, config, mode>>
                     /\ timerArmed' = timerArmed]_vars

\* a practice session has been left by its exit button
C37_Witness ==
    /\ observed.resetBy = "exit"
    /\ examState = initialState
    /\ config = Undefined
    /\ mode = "CLASSES"

\* C38: the status is never 'error': a request that fails leaves the status
\* idle with the error message set.
C38_NoErrorStatus ==
    /\ [](examState.status \in {"idle", "loading", "active", "finished"})
    /\ [][(ResolveStep /\ examState'.status # "active")
             => (examState'.status = "idle" /\ examState'.error = Def(ErrorMessage))]_vars

\* a request has failed
C38_Witness ==
    /\ examState.status = "idle"
    /\ examState.error = Def(ErrorMessage)
    /\ pending = EmptyBag

----------------------------------------------------------------------------
(* The session engine on its own: the handlers App hands to its screens      *)
(* (onAnswer, onFlag, onNavigate, onSubmit, onRestart, onStartExam) invoked  *)
(* with any arguments in any state, no screen deciding what is offered.      *)

\* indices handed to onAnswer / onFlag: those of the questions, or 0 when there is none
EngineIndices ==
    0..(IF Len(examState.questions) = 0 THEN 0 ELSE Len(examState.questions) - 1)

\* indices handed to onNavigate: one below and one above the questions included
EngineTargets == -1..Len(examState.questions)

EngineNext ==
    \/ \E c \in Configs : startQuizGeneration(c, "EXAM")
    \/ \E c \in Configs : \E qs \in GeneratedLists(c) : generationSucceeds(c, qs)
    \/ \E c \in Configs : generationFails(c)
    \/ tick
    \/ \E i \in EngineIndices : \E o \in 0..(NumOptions - 1) : handleAnswer(i, o)
    \/ \E i \in EngineIndices : handleFlag(i)
    \/ \E i \in EngineTargets : handleNavigate(i)
    \/ handleSubmit
    \/ handleRestart

SpecEngine == Init /\ [][EngineNext]_vars

\* C10: navigating, in an active session, to an index outside
\* [0, len(questions)) leaves currentQuestionIndex and the rest of the session
\* state unchanged.
C10_OutOfRangeIgnored ==
    [][\A i \in EngineTargets :
          (/\ examState.status = "active"
           /\ handleNavigate(i)
           /\ i \notin 0..(Len(examState.questions) - 1))
             => UNCHANGED examState]_vars

\* C17: onAnswer, onFlag and onNavigate invoked while the status is not
\* active leave the session state unchanged.
C17_OnlyWhileActive ==
    [][\A i \in EngineTargets : \A o \in 0..(NumOptions - 1) :
          (/\ examState.status # "active"
           /\ handleAnswer(i, o) \/ handleFlag(i) \/ handleNavigate(i))
             => UNCHANGED examState]_vars

----------------------------------------------------------------------------
(* ClassesScreen on its own: the screen is opened, a lesson is started and  *)
(* its text arrives piece by piece, any text of at most MaxText characters  *)
(* over Chunks, until the stream ends or fails; a lesson of the library can *)
(* be loaded at any time.  (In Spec the library is left out: a loaded       *)
(* lesson changes nothing of the session.)                                  *)

LessonNext ==
    \/ \E m \in Modes : SetMode(m)
    \/ StartClass
    \/ \E c \in Chunks :
          /\ Len(streamBuffer) + Len(c) <= MaxText
          /\ streamFragment(c)
    \/ StreamEnd
    \/ StreamFail
    \/ \E saved \in SavedLessons : LoadBookmark(saved)

SpecLesson == Init /\ [][LessonNext]_vars

\* the positions of the header lines among lines
HeaderIndices(lines) == {k \in 1..Len(lines) : IsHeaderLine(lines[k])}

\* the section a text is expected to give for its n-th header line: the title
\* is the header without marker, trimmed; the content is the lines up to the
\* next header line or the end, joined by newlines, without trailing whitespace
ExpectedSection(lines, n) ==
    LET H == HeaderIndices(lines)
        k == CHOOSE h \in H : Cardinality({g \in H : g < h}) = n - 1
        later == {h \in H : h > k}
        stop == IF later = {} THEN Len(lines) + 1
                ELSE CHOOSE h \in later : \A g \in later : h <= g
        header == TrimStart(lines[k])
    IN  [title |-> Trim(SubSeq(header, 4, Len(header))),
         content |-> TrimEnd(JoinLines(SubSeq(lines, k + 1, stop - 1)))]

ExpectedSections(text) ==
    LET lines == SplitLines(text)
    IN  [n \in 1..Cardinality(HeaderIndices(lines)) |-> ExpectedSection(lines, n)]

\* C20: the sections of the lesson are one per header line of the text
\* received, in the order of the text, each with the header's title and with
\* the lines up to the next header (or the end of the text) as content.
C20_OneSectionPerHeader ==
    \A l \in lesson :
        (streamOpen /\ l.topic = FormTopic) => l.sections = ExpectedSections(streamBuffer)

\* fragments joined in the order of arrival
RECURSIVE Concat(_)
Concat(chunks) == IF chunks = <<>> THEN <<>> ELSE Head(chunks) \o Concat(Tail(chunks))

\* a step in which a fragment of the stream is processed
FragmentStep == Len(observed'.received) > Len(observed.received)

\* a step in which the stream stops while ClassesScreen stays mounted
StreamStopStep == streamOpen /\ ~streamOpen' /\ mode' = mode

\* C21: after each fragment, the sections of the lesson are the parse of all
\* fragments received so far, joined in arrival order.
C21_ParseOfAllFragments ==
    [][FragmentStep
          => \A l \in lesson' :
                l.sections = parseMarkdownToSections(Concat(observed'.received))]_vars

\* a text that arrived in several fragments, one of them spanning a line end
C21_Witness ==
    /\ Len(observed.received) >= 3
    /\ \E i \in 1..Len(observed.received) : observed.received[i] = <<"a", NL>>
    /\ \E l \in lesson : Len(l.sections) >= 1 /\ l.sections[1].content # <<>>

\* C22: while a lesson of the library is shown, a fragment of the stream
\* still in flight does not change it.
C22_LoadedLessonUntouched ==
    [][\A saved \in SavedLessons :
          (lesson = Def(saved) /\ FragmentStep) => lesson' = lesson]_vars

\* C23: when the stream stops, the lesson stays as it was, a lesson started
\* from the form has the sections parsed from the fragments received, and
\* the generating flag is cleared.
C23_FailureKeepsProgress ==
    [][StreamStopStep
          => /\ lesson' = lesson
             /\ isGenerating' = FALSE
             /\ \A l \in lesson' :
                   l.topic = FormTopic
                      => l.sections = parseMarkdownToSections(Concat(observed.received))]_vars

\* the stream has stopped after two or more fragments that gave a section
C23_Witness ==
    /\ mode = "CLASSES"
    /\ ~streamOpen
    /\ ~isGenerating
    /\ Len(observed.received) >= 2
    /\ \E l \in lesson : l.topic = FormTopic /\ Len(l.sections) >= 1

\* the text from its first header line on
WithoutPreamble(text) ==
    LET lines == SplitLines(text)
        H == HeaderIndices(lines)
    IN  IF H = {} THEN <<>>
        ELSE JoinLines(SubSeq(lines, CHOOSE h \in H : \A g \in H : h <= g, Len(lines)))

\* C24: a text without header line gives no section, and the lines before the
\* first header line change nothing: the sections are those of the text
\* from its first header line on.
C24_PreambleDropped ==
    \A l \in lesson :
        l.topic = FormTopic
           => /\ HeaderIndices(SplitLines(streamBuffer)) = {} => l.sections = <<>>
              /\ l.sections = parseMarkdownToSections(WithoutPreamble(streamBuffer))

\* a text with a non-empty line before its first header line
C24_Witness ==
    /\ streamBuffer # <<>>
    /\ Head(SplitLines(streamBuffer)) # <<>>
    /\ ~IsHeaderLine(Head(SplitLines(streamBuffer)))
    /\ \E l \in lesson : l.topic = FormTopic /\ Len(l.sections) >= 1

\* the line begins with the marker ## and a space
BeginsWithMarker(line) == Len(line) >= 3 /\ SubSeq(line, 1, 3) = <<"#", "#", " ">>

\* C26: the lines treated as headers are exactly the lines that begin with
\* the marker and a space: there are as many sections as such lines.
C26_HeaderExactlyMarkerLines ==
    \A l \in lesson :
        l.topic = FormTopic
           => Len(l.sections) =
                 Cardinality({k \in 1..Len(SplitLines(streamBuffer)) :
                                 BeginsWithMarker(SplitLines(streamBuffer)[k])})

\* C27: the content of every section is its body without trailing
\* whitespace, leading whitespace and leading blank lines kept.
C27_OnlyTrailingTrimmed ==
    \A l \in lesson :
        l.topic = FormTopic
           => \A n \in 1..Len(l.sections) :
                 l.sections[n].content
                    = ExpectedSection(SplitLines(streamBuffer), n).content

\* C39: every section has a non-empty title, and there are as many sections
\* as lines the parser takes for headers.
C39_TitledSectionPerHeader ==
    \A l \in lesson :
        l.topic = FormTopic
           => /\ \A n \in 1..Len(l.sections) : l.sections[n].title # <<>>
              /\ Len(l.sections) = Cardinality(HeaderIndices(SplitLines(streamBuffer)))

\* a text with a section and with a line made of the marker and a space only
C39_Witness ==
    /\ \E l \in lesson : l.topic = FormTopic /\ Len(l.sections) >= 1
    /\ \E k \in 1..Len(SplitLines(streamBuffer)) :
          /\ BeginsWithMarker(SplitLines(streamBuffer)[k])
          /\ ~IsHeaderLine(SplitLines(streamBuffer)[k])

----------------------------------------------------------------------------
(* The lesson stream over texts made of headers, letters and newlines: long
   enough for several sections *)

OutlineChunks == {<<"#", "#", " ">>, <<"a">>, <<NL>>}

OutlineNext ==
    \/ \E m \in Modes : SetMode(m)
    \/ StartClass
    \/ \E c \in OutlineChunks :
          Len(streamBuffer) + Len(c) <= MaxOutline /\ streamFragment(c)
    \/ StreamEnd

SpecOutline == Init /\ [][OutlineNext]_vars

\* C35: as fragments arrive, the number of sections never decreases and
\* every section but the last one stays as it is, at its position.
C35_SectionsGrow ==
    [][FragmentStep
          => \A l \in lesson : \A m \in lesson' :
                /\ Len(m.sections) >= Len(l.sections)
                /\ \A n \in 1..(Len(l.sections) - 1) : m.sections[n] = l.sections[n]]_vars

\* a fragment has arrived after the second section began, the first one having content
C35_Witness ==
    /\ Len(observed.received) >= 8
    /\ \E l \in lesson :
          /\ Len(l.sections) = 2
          /\ l.sections[1].content # <<>>

----------------------------------------------------------------------------
(* From a lesson to its quiz: ClassesScreen with the library, the quiz
   started by handleTakeQuiz with its own configuration, and the practice
   session that follows *)

QuizNext ==
    \/ \E m \in Modes : SetMode(m)
    \/ StartClass
    \/ \E f \in Fragments : StreamFragment(f)
    \/ StreamEnd
    \/ \E saved \in SavedLessons : LoadBookmark(saved)
    \/ TakeQuiz
    \/ \E c \in BagToSet(pending) : \E qs \in GeneratedLists(c) : GenerationSucceeds(c, qs)
    \/ \E c \in BagToSet(pending) : GenerationFails(c)
    \/ Tick
    \/ NextQuestion
    \/ \E b \in BOOLEAN : ScreenSubmit(b)
    \/ Restart
    \/ \E b \in BOOLEAN : ExitPractice(b)

SpecQuiz == Init /\ [][QuizNext]_vars

\* C34: the quiz of a lesson is requested with the subject, level and topic
\* of the lesson shown, 5 questions and 5 minutes, and the session that a
\* successful request starts has timeRemaining 300.
C34_QuizOfLesson ==
    [][/\ (mode' = "PRACTICE" /\ BagCardinality(pending') > BagCardinality(pending))
           => \E l \in lesson :
                 LET c == [subject |-> l.subject, level |-> l.level, topic |-> l.topic,
                           questionCount |-> 5, durationMinutes |-> 5]
                 IN  /\ config' = Def(c)
                     /\ CopiesIn(c, pending') = CopiesIn(c, pending) + 1
       /\ (ResolveStep /\ examState'.status = "active")
           => examState'.timeRemaining = 300]_vars

\* the quiz of the saved lesson has just started
C34_Witness ==
    /\ mode = "PRACTICE"
    /\ examState.status = "active"
    /\ examState.timeRemaining = 300
    /\ observed.ticks = 0
    /\ \E c \in config : c.topic = "saved" /\ c.subject = "saved subject"

====
